---- MODULE Spec2Model ----
(***************************************************************************)
(* Model of assets/search.js: the client-side search dialog (first IIFE)   *)
(* and the theme toggle (second IIFE).                                     *)
(*                                                                         *)
(* A JavaScript string is a sequence of one-character strings, so that     *)
(* toLowerCase, trim, includes and replace are computed character by       *)
(* character.  A missing (undefined) record field is Undefined.            *)
(* res.innerHTML is the sequence of <li> elements the handler writes; each *)
(* element keeps, slot by slot, the text the template concatenates into    *)
(* it (href attribute value, title span, date span, description p).        *)
(***************************************************************************)
EXTENDS Naturals, Sequences, FiniteSets

VARIABLES
    idx,         \* var idx = window.__SEARCH__ || []
    dOpen,       \* d.open: the dialog is showing (always modal: only showModal opens it)
    inp,         \* inp.value
    res,         \* res.innerHTML
    stored,      \* localStorage item 'theme' (Null when absent)
    attr,        \* data-theme attribute of <html> (Null when absent)
    prefersDark, \* matchMedia('(prefers-color-scheme: dark)').matches
    ev,          \* history: the last event dispatched and whether its handler raised
    lastToggle,  \* history: the theme applied by the most recent toggle click
    prevTheme    \* history: data-theme just before the most recent toggle click

vars == <<idx, dOpen, inp, res, stored, attr, prefersDark, ev, lastToggle, prevTheme>>

searchVars == <<idx, dOpen, inp, res>>
themeVars == <<stored, attr, prefersDark, lastToggle, prevTheme>>

----------------------------------------------------------------------------
(* Bounds *)

\* longest index of the small-pool specification
MaxIdx == 2
\* longest index of the cap specification (more than MaxResults records)
MaxLongIdx == 10

----------------------------------------------------------------------------
(* Values *)

Undefined == <<"undefined">>
Null == "null"

Min(a, b) == IF a < b THEN a ELSE b

Whitespace == {" ", "\t"}

\* falsy strings: undefined and ''
Truthy(s) == s # Undefined /\ s # << >>

\* (s || '')
OrEmpty(s) == IF Truthy(s) THEN s ELSE << >>

----------------------------------------------------------------------------
(* String functions *)

LowerChar(c) ==
    CASE c = "A" -> "a"
      [] c = "B" -> "b"
      [] c = "K" -> "k"
      [] OTHER -> c

toLowerCase(s) == [i \in 1..Len(s) |-> LowerChar(s[i])]

RECURSIVE trimStart(_)
trimStart(s) ==
    IF s # << >> /\ Head(s) \in Whitespace THEN trimStart(Tail(s)) ELSE s

RECURSIVE trimEnd(_)
trimEnd(s) ==
    IF s # << >> /\ s[Len(s)] \in Whitespace
    THEN trimEnd(SubSeq(s, 1, Len(s) - 1))
    ELSE s

trim(s) == trimEnd(trimStart(s))

includes(h, q) ==
    \E i \in 0..Len(h) : i + Len(q) <= Len(h) /\ SubSeq(h, i + 1, i + Len(q)) = q

RECURSIVE replaceAll(_, _, _)
replaceAll(s, c, r) ==
    IF s = << >> THEN << >>
    ELSE (IF Head(s) = c THEN r ELSE <<Head(s)>>) \o replaceAll(Tail(s), c, r)

\* (s || '').replace(/&/g, '&amp;').replace(/</g, '&lt;').replace(/>/g, '&gt;')
escHtml(s) ==
    replaceAll(
        replaceAll(
            replaceAll(OrEmpty(s), "&", <<"&", "a", "m", "p", ";">>),
            "<", <<"&", "l", "t", ";">>),
        ">", <<"&", "g", "t", ";">>)

----------------------------------------------------------------------------
(* The search index: records with title, description, body, slug, date.    *)
(* title and body are strings; description and date may be missing.        *)

Post(title, description, body, slug, date) ==
    [title |-> title, description |-> description, body |-> body,
     slug |-> slug, date |-> date]

RecordPool ==
    { Post(<<"A", "b">>, Undefined, <<"c">>, <<"p", "1">>, Undefined),
      Post(<<"a">>, <<"b", "<">>, <<"&", "k">>, <<"x", "\"", "y">>, <<"d", ">">>),
      Post(<<"<", "B", ">">>, << >>, <<"z", "&", "l", "t", ";">>, <<"p", "&", "3">>, <<"1">>) }

SeqsUpTo(S, n) == UNION { [1..k -> S] : k \in 0..n }

Indexes == SeqsUpTo(RecordPool, MaxIdx)

Letters == <<"a", "b", "c", "d", "e", "f", "g", "h", "i", "j", "l", "m", "n", "o">>

\* an index whose i-th record has the slug p<i-th letter> and the given title
LongIndexes ==
    { [i \in 1..Len(t) |->
          Post(<<t[i]>>, Undefined, <<"k">>, <<"p", Letters[i]>>, Undefined)] :
      t \in SeqsUpTo({"A", "z"}, MaxLongIdx) }

\* what the user can leave in the text field
Inputs ==
    { << >>,
      <<" ", "\t">>,
      <<"a">>,
      <<" ", "A", "B", "\t">>,
      <<"a", " ", "b">>,
      <<"&">>,
      <<"K">> }

----------------------------------------------------------------------------
(* The input listener *)

\* (p.title + ' ' + (p.description || '') + ' ' + p.body)
Haystack(p) == p.title \o <<" ">> \o OrEmpty(p.description) \o <<" ">> \o p.body

IsHitNoLower(p, q) == includes(Haystack(p), q)

\* the idx.filter callback
IsHit(p, q) == includes(toLowerCase(Haystack(p)), q)

MaxResults == 8

sliceOneMore(s, n) == SubSeq(s, 1, Min(n + 1, Len(s)))

\* .slice(0, n)
slice(s, n) == SubSeq(s, 1, Min(n, Len(s)))

\* idx.filter(...).slice(0, 8)
Hits(q) == slice(SelectSeq(idx, LAMBDA p : IsHit(p, q)), MaxResults)

NoResults ==
    [cls |-> "search-no-results", href |-> << >>, title |-> <<"No results found">>,
     hasDate |-> FALSE, date |-> << >>, hasDesc |-> FALSE, desc |-> << >>]

BlogPrefix == <<"/", "b", "l", "o", "g", "/">>

\* the hits.map callback: one <li><a class="search-result" href="...">...</a></li>
RenderHit(p) ==
    [cls |-> "search-result",
     href |-> BlogPrefix \o escHtml(p.slug),
     title |-> escHtml(p.title),
     hasDate |-> Truthy(p.date),
     date |-> IF Truthy(p.date) THEN escHtml(p.date) ELSE << >>,
     hasDesc |-> Truthy(p.description),
     desc |-> IF Truthy(p.description) THEN escHtml(p.description) ELSE << >>]

RenderResultsNoPlaceholder(hits) == [i \in 1..Len(hits) |-> RenderHit(hits[i])]

\* the placeholder when there is no hit, else the mapped and joined hits
RenderResults(hits) ==
    IF Len(hits) = 0 THEN <<NoResults>>
    ELSE [i \in 1..Len(hits) |-> RenderHit(hits[i])]

OnInputNoTrim(v) ==
    LET q == toLowerCase(v)
    IN  IF q = << >> THEN << >> ELSE RenderResults(Hits(q))

\* the new res.innerHTML for the field value v
OnInput(v) ==
    LET q == trim(toLowerCase(v))
    IN  IF q = << >> THEN << >> ELSE RenderResults(Hits(q))

----------------------------------------------------------------------------
(* Theme *)

ThemeValues == {"light", "dark", "system"}

LoadThemePreferenceFirst(st, dark) ==
    IF dark THEN "dark" ELSE IF st # Null THEN st ELSE Null

\* data-theme after the theme IIFE has run on a fresh document
LoadTheme(st, dark) ==
    IF st # Null THEN st
    ELSE IF dark THEN "dark"
    ELSE Null

\* html.getAttribute('data-theme') === 'dark' ? 'light' : 'dark'
NextTheme(cur) == IF cur = "dark" THEN "light" ELSE "dark"

----------------------------------------------------------------------------
(* Events *)

Keys == {"k", "K", "Escape"}

Event(kind, key, ctrl, meta, target, raised) ==
    [kind |-> kind, key |-> key, ctrl |-> ctrl, meta |-> meta,
     target |-> target, raised |-> raised]

Plain(kind) == Event(kind, "", FALSE, FALSE, "", FALSE)

----------------------------------------------------------------------------
(* The dialog *)

openDialogKeepResults(e) ==
    \/ /\ ~dOpen
       /\ dOpen' = TRUE /\ inp' = << >> /\ res' = res
       /\ ev' = e
    \/ /\ dOpen
       /\ dOpen' = TRUE /\ inp' = << >> /\ res' = res
       /\ ev' = e
    \/ /\ dOpen
       /\ UNCHANGED <<dOpen, inp, res>>
       /\ ev' = [e EXCEPT !.raised = TRUE]

\* openDialog, called for the event e.  d.showModal() on a closed dialog
\* opens it.  On a dialog that is already open as a modal it either returns
\* at once or throws InvalidStateError, depending on the browser; a throw
\* ends the handler before the two assignments.
openDialog(e) ==
    \/ /\ ~dOpen
       /\ dOpen' = TRUE /\ inp' = << >> /\ res' = << >>
       /\ ev' = e
    \/ /\ dOpen
       /\ dOpen' = TRUE /\ inp' = << >> /\ res' = << >>
       /\ ev' = e
    \/ /\ dOpen
       /\ UNCHANGED <<dOpen, inp, res>>
       /\ ev' = [e EXCEPT !.raised = TRUE]

\* btn.addEventListener('click', openDialog).  While the dialog is open as a
\* modal the rest of the page, the button included, is inert.
SearchBtnClick ==
    /\ ~dOpen
    /\ openDialog(Plain("searchBtn"))
    /\ UNCHANGED <<idx, themeVars>>

\* closeBtn click: d.close(); the click then bubbles to d with target closeBtn.
\* The close button, the field and the results are the dialog's content and
\* take events only while it is open.
CloseBtnClick ==
    /\ dOpen
    /\ dOpen' = FALSE
    /\ ev' = Plain("closeBtn")
    /\ UNCHANGED <<idx, inp, res, themeVars>>

DialogTargets == {"dialog", "content"}

\* d click listener: if (e.target === d) d.close()
DialogClick(target) ==
    /\ dOpen
    /\ dOpen' = IF target = "dialog" THEN FALSE ELSE dOpen
    /\ ev' = Event("dialogClick", "", FALSE, FALSE, target, FALSE)
    /\ UNCHANGED <<idx, inp, res, themeVars>>

IsShortcutBothModifiers(key, ctrl, meta) == (ctrl /\ meta) /\ key = "k"

\* (e.ctrlKey || e.metaKey) && e.key === 'k'
IsShortcut(key, ctrl, meta) == (ctrl \/ meta) /\ key = "k"

\* A dialog shown by showModal() is closed by the browser on a close request
\* (the Escape key); the script cancels neither the keydown nor the cancel
\* event.  Whether Escape with a modifier held is a close request depends on
\* the platform.
CloseRequest(key, ctrl, meta) ==
    /\ key = "Escape"
    /\ dOpen
    /\ dOpen' \in (IF ctrl \/ meta THEN {TRUE, FALSE} ELSE {FALSE})

\* document keydown listener, followed by the key's default action
KeyDown(key, ctrl, meta) ==
    /\ \/ /\ IsShortcut(key, ctrl, meta)
          /\ openDialog(Event("keydown", key, ctrl, meta, "", FALSE))
       \/ /\ ~IsShortcut(key, ctrl, meta)
          /\ CloseRequest(key, ctrl, meta)
          /\ ev' = Event("keydown", key, ctrl, meta, "", FALSE)
          /\ UNCHANGED <<inp, res>>
       \/ /\ ~IsShortcut(key, ctrl, meta)
          /\ ~(key = "Escape" /\ dOpen)
          /\ ev' = Event("keydown", key, ctrl, meta, "", FALSE)
          /\ UNCHANGED <<dOpen, inp, res>>
    /\ UNCHANGED <<idx, themeVars>>

\* the user edits the field to v; the input listener renders the results
Input(v) ==
    /\ dOpen
    /\ inp' = v
    /\ res' = OnInput(v)
    /\ ev' = Plain("input")
    /\ UNCHANGED <<idx, dOpen, themeVars>>

----------------------------------------------------------------------------
(* The theme toggle *)

\* toggle click listener: setItem('theme', next); applyTheme(next)
ThemeToggleClick ==
    LET next == NextTheme(attr)
    IN  /\ stored' = next
        /\ attr' = next
        /\ lastToggle' = next
        /\ prevTheme' = attr
        /\ ev' = Plain("toggle")
        /\ UNCHANGED <<searchVars, prefersDark>>

\* the system colour-scheme preference changes; the script does not listen
PrefChange ==
    /\ prefersDark' = ~prefersDark
    /\ ev' = Plain("pref")
    /\ UNCHANGED <<searchVars, stored, attr, lastToggle, prevTheme>>

ReloadStoresTheme ==
    /\ dOpen' = FALSE /\ inp' = << >> /\ res' = << >>
    /\ attr' = LoadTheme(stored, prefersDark)
    /\ stored' = (IF attr' = Null THEN stored ELSE attr')
    /\ ev' = Plain("load")
    /\ UNCHANGED <<idx, prefersDark, lastToggle, prevTheme>>

\* page load: a fresh document (dialog closed, field and results empty, no
\* data-theme attribute) on which both IIFEs run again; local storage and
\* the index built into the page are the same
Reload ==
    /\ dOpen' = FALSE /\ inp' = << >> /\ res' = << >>
    /\ attr' = LoadTheme(stored, prefersDark)
    /\ ev' = Plain("load")
    /\ UNCHANGED <<idx, stored, prefersDark, lastToggle, prevTheme>>

----------------------------------------------------------------------------
(* Specifications *)

Init ==
    /\ idx \in Indexes
    /\ dOpen = FALSE /\ inp = << >> /\ res = << >>
    /\ stored \in ThemeValues \cup {Null}
    /\ prefersDark \in BOOLEAN
    /\ attr = LoadTheme(stored, prefersDark)
    /\ ev = Plain("load")
    /\ lastToggle = Null
    /\ prevTheme = Null

Next ==
    \/ SearchBtnClick
    \/ CloseBtnClick
    \/ \E t \in DialogTargets : DialogClick(t)
    \/ \E key \in Keys, ctrl \in BOOLEAN, meta \in BOOLEAN : KeyDown(key, ctrl, meta)
    \/ \E v \in Inputs : Input(v)
    \/ ThemeToggleClick
    \/ PrefChange
    \/ Reload

Spec == Init /\ [][Next]_vars

\* the search filter alone, over indexes longer than the cap
InitFilter ==
    /\ idx \in LongIndexes
    /\ dOpen = FALSE /\ inp = << >> /\ res = << >>
    /\ stored = Null
    /\ prefersDark = FALSE
    /\ attr = LoadTheme(stored, prefersDark)
    /\ ev = Plain("load")
    /\ lastToggle = Null
    /\ prevTheme = Null

NextFilter ==
    \/ SearchBtnClick
    \/ \E v \in Inputs : Input(v)

SpecFilter == InitFilter /\ [][NextFilter]_vars

----------------------------------------------------------------------------
(* Properties *)

\* the query the input listener derives from the field
Query == trim(toLowerCase(inp))

IsBlank(s) == \A i \in DOMAIN s : s[i] \in {" ", "\t"}

Range(s) == { s[i] : i \in DOMAIN s }

\* positions of the index whose record matches q
MatchPos(q) == { i \in DOMAIN idx : IsHit(idx[i], q) }

\* the position of the k-th matching record, counting from the front
KthMatch(q, k) ==
    CHOOSE i \in MatchPos(q) : Cardinality({ j \in MatchPos(q) : j <= i }) = k

ResultEntries == { i \in DOMAIN res : res[i].cls = "search-result" }

Rendered(p) == \E k \in DOMAIN res : res[k] = RenderHit(p)

\* C1: after an input event with a non-blank query, the list holds exactly
\* the first min(8, n) of the n matching records, in index order, and never
\* more than 8 result entries.
C1_FirstEightInOrder ==
    (ev.kind = "input" /\ Query # << >>) =>
        LET n == Cardinality(MatchPos(Query))
            m == Min(MaxResults, n)
        IN  /\ Cardinality(ResultEntries) = m
            /\ Cardinality(ResultEntries) <= 8
            /\ n > 0 => /\ Len(res) = m
                        /\ \A k \in 1..m : res[k] = RenderHit(idx[KthMatch(Query, k)])

C1_Witness ==
    /\ ev.kind = "input"
    /\ Cardinality(MatchPos(Query)) > 8
    /\ Len(res) = 8
    /\ \E i \in DOMAIN idx : i < 8 /\ i \notin MatchPos(Query)

\* some field of the record, taken alone and lower-cased, contains q
FieldContains(p, q) ==
    \/ includes(toLowerCase(p.title), q)
    \/ includes(toLowerCase(OrEmpty(p.description)), q)
    \/ includes(toLowerCase(p.body), q)

\* the three fields lower-cased one by one and joined by single spaces
LowerJoined(p) ==
    toLowerCase(p.title) \o <<" ">> \o toLowerCase(OrEmpty(p.description))
        \o <<" ">> \o toLowerCase(p.body)

\* C2 as stated: a record none of whose fields contains the query alone is
\* never a hit.
C2_HitOnlyIfSomeFieldContains ==
    (ev.kind = "input" /\ Query # << >>) =>
        \A i \in DOMAIN idx : Rendered(idx[i]) => FieldContains(idx[i], Query)

\* C2 amended: a record is a hit exactly when the lower-cased, trimmed query
\* is a substring of its lower-cased title, description and body joined by
\* single spaces; for a query without a space character that is exactly when
\* one of the three fields alone contains it.
C2_HitIffJoinedContains ==
    (ev.kind = "input" /\ Query # << >>) =>
        \A i \in DOMAIN idx :
            /\ Rendered(idx[i]) <=> includes(LowerJoined(idx[i]), Query)
            /\ " " \notin Range(Query) =>
                   (Rendered(idx[i]) <=> FieldContains(idx[i], Query))

C2_Witness ==
    /\ ev.kind = "input"
    /\ inp = <<" ", "A", "B", "\t">>
    /\ \E i \in DOMAIN idx : Rendered(idx[i]) /\ idx[i].title = <<"A", "b">>
    /\ \E i \in DOMAIN idx : ~Rendered(idx[i])

\* C3: an input event with an empty or all-whitespace field leaves the
\* results list empty.
C3_BlankQueryClears ==
    (ev.kind = "input" /\ IsBlank(inp)) => res = << >>

C3_Witness ==
    /\ ev.kind = "input"
    /\ inp = <<" ", "\t">>
    /\ idx # << >>
    /\ res = << >>

\* C4: after an input event the list is the single placeholder exactly when
\* the query is non-blank and matches no record; the placeholder never
\* appears for a blank query or beside result entries.
C4_PlaceholderIffNoMatch ==
    /\ ev.kind = "input" =>
           (res = <<NoResults>> <=> (~IsBlank(inp) /\ MatchPos(Query) = {}))
    /\ (\E i \in DOMAIN res : res[i].cls = "search-no-results") =>
           (res = <<NoResults>> /\ ~IsBlank(inp) /\ MatchPos(Query) = {})

C4_Witness ==
    /\ ev.kind = "input"
    /\ res = <<NoResults>>
    /\ idx # << >>

EscapeNames == { <<"a", "m", "p", ";">>, <<"l", "t", ";">>, <<"g", "t", ";">> }

\* no character opens a tag, and every ampersand starts one of the escapes
TextSafe(t) ==
    \A i \in DOMAIN t :
        /\ t[i] \notin {"<", ">"}
        /\ t[i] = "&" => \E e \in EscapeNames : SubSeq(t, i + 1, i + Len(e)) = e

\* safe inside a double-quoted attribute value
AttrSafe(t) == TextSafe(t) /\ "\"" \notin Range(t)

\* C5: every interpolated field (href, title, date, description) is
\* rendered with no character that opens a tag, starts an entity or ends the
\* attribute it is placed in.
C5_EveryFieldEscaped ==
    \A i \in ResultEntries :
        /\ AttrSafe(res[i].href)
        /\ TextSafe(res[i].title)
        /\ TextSafe(res[i].date)
        /\ TextSafe(res[i].desc)

\* C6: once a toggle has been clicked, the stored theme is the one the most
\* recent toggle applied, and a page load applies it whatever the system
\* preference.
C6_StoredThemeRestored ==
    lastToggle # Null =>
        /\ stored = lastToggle
        /\ ev.kind = "load" => attr = lastToggle

C6_Witness ==
    /\ lastToggle = "light"
    /\ ev.kind = "load"
    /\ prefersDark
    /\ attr = "light"

IsOpenShortcut(e) == e.kind = "keydown" /\ e.key = "k" /\ (e.ctrl \/ e.meta)

IsBackdropClick(e) == e.kind = "dialogClick" /\ e.target = "dialog"

\* the events the claim lists as leaving the dialog as it is
OtherEvent(e) ==
    \/ e.kind = "input"
    \/ e.kind = "dialogClick" /\ e.target # "dialog"
    \/ e.kind = "keydown" /\ ~(e.key = "k" /\ (e.ctrl \/ e.meta))

\* C7 as stated: the button and Ctrl/Meta+k open a closed dialog, the close
\* button and a backdrop click close an open one, and input events, clicks
\* inside the dialog and every other keydown leave it as it is.
C7_NoOtherEventChangesOpen ==
    [][ /\ (~dOpen /\ (ev'.kind = "searchBtn" \/ IsOpenShortcut(ev'))) => dOpen'
        /\ (dOpen /\ (ev'.kind = "closeBtn" \/ IsBackdropClick(ev'))) => ~dOpen'
        /\ OtherEvent(ev') => dOpen' = dOpen ]_vars

\* C7 amended: as stated, except that a keydown of Escape while the dialog is
\* open closes it (without a modifier always).
C7_OnlyEscapeBesidesListed ==
    [][ /\ (~dOpen /\ (ev'.kind = "searchBtn" \/ IsOpenShortcut(ev'))) => dOpen'
        /\ (dOpen /\ (ev'.kind = "closeBtn" \/ IsBackdropClick(ev'))) => ~dOpen'
        /\ (OtherEvent(ev') /\ ~(ev'.kind = "keydown" /\ ev'.key = "Escape"))
               => dOpen' = dOpen
        /\ (dOpen /\ ev'.kind = "keydown" /\ ev'.key = "Escape"
                  /\ ~ev'.ctrl /\ ~ev'.meta) => ~dOpen' ]_vars

C7_Witness ==
    /\ ev.kind = "keydown" /\ ev.key = "k" /\ ev.ctrl /\ ~ev.meta
    /\ ~ev.raised
    /\ dOpen
    /\ inp = << >>

\* C8: no handler raises.
C8_NoHandlerRaises == ~ev.raised

\* C9: the results list is always the rendering of the filter applied to the
\* field's current value, and an open that did not raise leaves both empty.
C9_ResultsReflectInput ==
    /\ res = (IF IsBlank(inp) THEN << >> ELSE RenderResults(Hits(Query)))
    /\ ((ev.kind = "searchBtn" \/ IsOpenShortcut(ev)) /\ ~ev.raised) =>
           (dOpen /\ inp = << >> /\ res = << >>)

C9_Witness ==
    /\ ev.kind = "searchBtn"
    /\ ~ev.raised
    /\ dOpen
    /\ idx # << >>
    /\ res = << >>

\* C10: only a toggle click writes the stored theme (a page load applies the
\* system dark preference without storing it); a toggle click sets the stored
\* theme and data-theme to 'light' if data-theme was 'dark' and to 'dark'
\* otherwise; after the first toggle data-theme is 'light' or 'dark', and a
\* second toggle in a row brings back the value it had before the first.
C10_OnlyToggleWritesTheme ==
    [][ /\ ev'.kind # "toggle" => stored' = stored
        /\ (ev'.kind = "load" /\ stored = Null /\ prefersDark) =>
               (attr' = "dark" /\ stored' = Null)
        /\ ev'.kind = "toggle" =>
               /\ stored' = attr'
               /\ attr' = (IF attr = "dark" THEN "light" ELSE "dark")
        /\ lastToggle' # Null => attr' \in {"light", "dark"}
        /\ (ev.kind = "toggle" /\ ev'.kind = "toggle"
                /\ prevTheme \in {"light", "dark"}) => attr' = prevTheme ]_vars

C10_Witness ==
    /\ ev.kind = "toggle"
    /\ prevTheme = "system"
    /\ attr = "dark"
    /\ stored = "dark"

====
